---- MODULE Spec2Model ----
(***************************************************************************)
(* arcpy_auth_manager: TokenManager (src/arcpy_auth_manager/manager.py).   *)
(*                                                                         *)
(* A TokenManager keeps, per username, a Fernet key in a JSON file         *)
(* (auth_data.json, mirrored in memory as self.json_data) and the token    *)
(* encrypted under that key in the OS keyring.  Several manager objects    *)
(* (independent host processes) share the one file and the one keyring.    *)
(* store() is not atomic: it is modelled statement group by statement      *)
(* group, split at the points where it touches the file or the keyring,    *)
(* where another process can run, an exception can leave it, or the        *)
(* process can die.                                                        *)
(***************************************************************************)
EXTENDS Integers, Sequences, FiniteSets, TLC

(***************************************************************************)
(* Bounds of the model.                                                    *)
(***************************************************************************)
\* Number of values os.urandom hands out in one behaviour (every store
\* draws one for its key and one for its IV).
MaxRandom == 4

\* The manager objects (one per host process slot).
Managers == {"A", "B"}

\* Usernames handed to store / retrieve_current_token.
Usernames == {"alice", "bob"}

\* Token strings as sequences of code points: two ASCII tokens and one that
\* holds a non-ASCII character (246 = o-umlaut).
TokenChars == {<<116, 49>>, <<116, 50>>, <<116, 246>>}

\* Values of sys.platform.
Platforms == {"win32", "linux"}

(***************************************************************************)
(* Python values: str and bytes are different types; a conversion changes  *)
(* the type and can raise.                                                 *)
(***************************************************************************)
Str(chars) == [type |-> "str", v |-> chars]

Bytes(data) == [type |-> "bytes", v |-> data]

\* Python's None (what a call without a return statement yields).
NoneVal == [type |-> "NoneType", v |-> <<>>]

\* An exception of class `exc` leaving the call.
Raised(exc) == [type |-> exc, v |-> <<>>]

IsRaised(val) == val.type \notin {"str", "bytes", "NoneType"}

Tokens == {Str(c) : c \in TokenChars}

IsAscii(chars) == \A n \in 1..Len(chars) : chars[n] < 128

\* str.encode('ascii'): bytes of the same code points, UnicodeEncodeError
\* on a character above 127, AttributeError on None (not a str).
encode_ascii(s) ==
    IF s.type # "str" THEN Raised("AttributeError")
    ELSE IF IsAscii(s.v) THEN Bytes(s.v)
    ELSE Raised("UnicodeEncodeError")

\* bytes.decode('utf-8') of ASCII-only data (base64 text): the same code
\* points as a str.
decode_utf8(b) ==
    IF b.type # "bytes" THEN Raised("AttributeError") ELSE Str(b.v)

(***************************************************************************)
(* cryptography.fernet                                                     *)
(***************************************************************************)
\* A key derived from nothing fresh: every call returns the same key.
generate_key_fixed(rnd) == Bytes(<<1>>)

\* A key derived from a coarse clock: calls close together get one key.
generate_key_coarse(rnd) == Bytes(<<(rnd + 2) \div 3>>)

\* Fernet.generate_key(): base64 of 32 bytes of os.urandom; `rnd` is the
\* value os.urandom returned (os.urandom never returns a value twice).
generate_key(rnd) == Bytes(<<rnd>>)

\* Fernet(key).encrypt(data): a token that binds the plaintext to the key
\* (HMAC) and carries a fresh IV.  Laid out as <<key id, iv>> \o plaintext.
Fernet_encrypt(key, data, iv) == Bytes(<<key.v[1], iv>> \o data.v)

\* A decrypt that does not verify the HMAC: the payload under any key.
Fernet_decrypt_unverified(key, tok) == Bytes(SubSeq(tok.v, 3, Len(tok.v)))

\* Fernet(key).decrypt(token): the plaintext bytes when the HMAC verifies
\* under `key`, InvalidToken otherwise.
Fernet_decrypt(key, tok) ==
    IF Len(tok.v) >= 2 /\ tok.v[1] = key.v[1]
    THEN Bytes(SubSeq(tok.v, 3, Len(tok.v)))
    ELSE Raised("InvalidToken")

(***************************************************************************)
(* json: the registry file is absent, holds text that json.load rejects    *)
(* (empty after open(mode='w'), or cut short), or holds an object.         *)
(***************************************************************************)
NoFile == [kind |-> "absent", obj |-> <<>>]

Truncated == [kind |-> "unparseable", obj |-> <<>>]

json_dump(d) == [kind |-> "json", obj |-> d]

\* A dict with no entries.
EmptyDict == <<>>

\* d[k] = val on a dict
DictSet(d, k, val) == [x \in DOMAIN d \cup {k} |-> IF x = k THEN val ELSE d[x]]

VARIABLES
    platform,       \* sys.platform of the host
    dir_exists,     \* base_storage_folder exists on disk
    json_storage,   \* content of <base_storage_folder>/auth_data.json
    keyring,        \* keyring passwords of service "arcpy_auth_manager"
    urandom,        \* how many values os.urandom has handed out
    pc,             \* per manager: "dead", "idle", or its place in store()
    json_data,      \* per manager: self.json_data
    username,       \* per manager: store()'s username argument
    token,          \* per manager: store()'s token argument
    crypt_key,      \* per manager: store()'s local crypt_key
    last,           \* the call the latest step ended, and its outcome
    call,           \* history: per manager, how its store() in flight began
    cred,           \* history: per manager and username, the store it
                    \* completed, while no other store for the username ran
    last_done,      \* history: the latest store that completed undisturbed
    persisted_keys, \* history: key ids a completed json.dump put in the file
    cts_written,    \* history: key ids of the ciphertexts put in the keyring
    sealed,         \* history: per username, the ciphertext the latest
                    \* keyring write of a store put there, its token and
                    \* the key it was encrypted with
    inst            \* history: per manager, an instance that started from
                    \* no registry, up to its second store

vars == <<platform, dir_exists, json_storage, keyring, urandom, pc, json_data,
          username, token, crypt_key, last, call, cred, last_done,
          persisted_keys, cts_written, sealed, inst>>

(***************************************************************************)
(* Pure parts of TokenManager.                                             *)
(***************************************************************************)
\* A constructor that starts from {} without reading the file.
_get_json_storage_empty(file) == EmptyDict

\* A loader that keeps a placeholder entry per username when it cannot
\* read the registry.
_get_json_storage_placeholder(file) ==
    IF file.kind = "json" THEN file.obj
    ELSE [u \in Usernames |-> Str(<<0>>)]

\* _get_json_storage (lines 84-97): the parsed object when the file exists
\* and json.load accepts it, {} when it is absent or JSONDecodeError.
_get_json_storage(file) ==
    IF file.kind = "json" THEN file.obj ELSE EmptyDict

\* _get_key with dict.get and a default key instead of self.json_data[...].
_get_key_default(jd, u) ==
    IF u \in DOMAIN jd THEN encode_ascii(jd[u]) ELSE Bytes(<<0>>)

\* _get_key (lines 103-105): self.json_data[username].encode('ascii');
\* the subscript raises KeyError for a username the dict does not hold.
_get_key(jd, u) ==
    IF u \in DOMAIN jd THEN encode_ascii(jd[u]) ELSE Raised("KeyError")

\* keyring.get_password: the stored str, None when there is none.
get_password(kr, u) == IF u \in DOMAIN kr THEN kr[u] ELSE NoneVal

\* retrieve_current_token looking the key up before reading the keyring.
retrieve_result_key_first(jd, kr, u) ==
    LET key == _get_key(jd, u)
        encrypted_token == encode_ascii(get_password(kr, u))
    IN  IF IsRaised(key) THEN key
        ELSE IF IsRaised(encrypted_token) THEN encrypted_token
        ELSE Fernet_decrypt(key, encrypted_token)

\* retrieve_current_token (lines 135-139): what the call returns or raises,
\* given self.json_data and the keyring.  Line 136 runs first: .encode on
\* None raises AttributeError; then _get_key; then decrypt.
retrieve_result(jd, kr, u) ==
    LET encrypted_token == encode_ascii(get_password(kr, u))
        key == _get_key(jd, u)
    IN  IF IsRaised(encrypted_token) THEN encrypted_token
        ELSE IF IsRaised(key) THEN key
        ELSE Fernet_decrypt(key, encrypted_token)

\* Line 127 written as dict.setdefault: an existing entry is kept.
store_json_data_setdefault(jd, u, key) ==
    IF u \in DOMAIN jd THEN jd ELSE DictSet(jd, u, decode_utf8(key))

\* Line 127 building a new dict that holds the new entry only.
store_json_data_only(jd, u, key) == DictSet(EmptyDict, u, decode_utf8(key))

\* store, line 127: self.json_data[username] = crypt_key.decode('utf-8')
store_json_data(jd, u, key) == DictSet(jd, u, decode_utf8(key))

\* Lines 131-132 with the encrypter built from a second generate_key().
store_encrypted_token_other_key(key, tok, iv) ==
    LET data == encode_ascii(tok)
    IN  IF IsRaised(data) THEN data
        ELSE decode_utf8(Fernet_encrypt(generate_key(iv), data, iv))

\* Lines 131-132 without the encryption: the token itself goes on.
store_encrypted_token_plain(key, tok, iv) == tok

\* store, lines 131-132: Fernet(crypt_key).encrypt(token.encode('ascii'))
\* .decode('utf-8'); UnicodeEncodeError when the token is not ASCII.
store_encrypted_token(key, tok, iv) ==
    LET data == encode_ascii(tok)
    IN  IF IsRaised(data) THEN data
        ELSE decode_utf8(Fernet_encrypt(key, data, iv))

\* store with the keyring written before the registry file.
store_next_keyring_first(p) ==
    CASE p = "idle" -> "set_password"
      [] p = "set_password" -> "dump"
      [] p = "dump" -> "idle"

\* store, lines 128-133: the order of its writes.  After the in-memory
\* update and open(mode='w') comes json.dump (line 101), then the keyring
\* write (line 133), then the return.
store_next(p) ==
    CASE p = "idle" -> "dump"
      [] p = "dump" -> "set_password"
      [] p = "set_password" -> "idle"

(***************************************************************************)
(* History records.                                                        *)
(***************************************************************************)
\* cred[m][u] when m has no undisturbed completed store for u.
NoCred == [done |-> FALSE, token |-> Str(<<>>), key |-> Bytes(<<>>),
           prev |-> <<>>, prev_token |-> Str(<<>>)]

\* call[m] outside store(): `prev` and `prev_token` are the key and the
\* token of the credential the call replaces, `alone` whether no other manager has been inside store()
\* since the call began.
NoCall == [prev |-> <<>>, prev_token |-> Str(<<>>), alone |-> FALSE]

\* inst[m] follows an instance whose __init__ found the registry file
\* absent or unparseable (`from`), and the username of its first store()
\* since (`stored`), until it begins a second one.  NoInst: m is no such
\* instance.
NoInst == [from |-> "none", stored |-> {}]

NoArgs == [username |-> "", token |-> Str(<<>>), crypt_key |-> Bytes(<<>>)]

Others(m) == Managers \ {m}

\* No other manager is inside store().
Alone(m) == \A o \in Others(m) : pc[o] \in {"idle", "dead"}

\* Managers inside store() that have not drawn their IV yet.
Pending == {m \in Managers : pc[m] \in {"dump", "set_password"}}

\* Key ids a registry object holds.
KeyIds(d) == {d[u].v[1] : u \in DOMAIN d}

Outcome(op, m, u, res) == [op |-> op, m |-> m, username |-> u, result |-> res]

\* The step ended no call.
NoOutcome == Outcome("none", "", "", NoneVal)

\* Manager m runs a step of store() for username u: the other managers'
\* completed stores for u are no longer the latest.
Disturb(c, m, u) ==
    [o \in Managers |->
        IF o = m THEN c[o] ELSE [c[o] EXCEPT ![u] = NoCred]]

Init ==
    /\ platform \in Platforms
    /\ dir_exists = FALSE
    /\ json_storage = NoFile
    /\ keyring = EmptyDict
    /\ urandom = 0
    /\ pc = [m \in Managers |-> "dead"]
    /\ json_data = [m \in Managers |-> EmptyDict]
    /\ username = [m \in Managers |-> NoArgs.username]
    /\ token = [m \in Managers |-> NoArgs.token]
    /\ crypt_key = [m \in Managers |-> NoArgs.crypt_key]
    /\ last = NoOutcome
    /\ call = [m \in Managers |-> NoCall]
    /\ cred = [m \in Managers |-> [u \in Usernames |-> NoCred]]
    /\ last_done = <<>>
    /\ persisted_keys = {}
    /\ cts_written = {}
    /\ sealed = EmptyDict
    /\ inst = [m \in Managers |-> NoInst]

(***************************************************************************)
(* TokenManager.__init__ (lines 73-82)                                     *)
(***************************************************************************)
\* On win32: makedirs(exist_ok=True), then load the registry file.
TokenManager_init(m) ==
    /\ pc[m] = "dead"
    /\ platform = "win32"
    /\ dir_exists' = TRUE
    /\ json_data' = [json_data EXCEPT ![m] = _get_json_storage(json_storage)]
    /\ pc' = [pc EXCEPT ![m] = "idle"]
    /\ last' = Outcome("__init__", m, "", NoneVal)
    /\ inst' = [inst EXCEPT ![m] =
                    IF json_storage.kind = "json" THEN NoInst
                    ELSE [from |-> json_storage.kind, stored |-> {}]]
    /\ UNCHANGED <<platform, json_storage, keyring, urandom, username, token,
                   crypt_key, call, cred, last_done, persisted_keys,
                   cts_written, sealed>>

\* An __init__ that creates the folder before it looks at the platform.
TokenManager_init_unsupported_makedirs(m) ==
    /\ pc[m] = "dead"
    /\ platform # "win32"
    /\ dir_exists' = TRUE
    /\ last' = Outcome("__init__", m, "", Raised("NotImplementedError"))
    /\ UNCHANGED <<platform, json_storage, keyring, urandom, pc, json_data,
                   username, token, crypt_key, call, cred, last_done,
                   persisted_keys, cts_written, sealed, inst>>

\* Elsewhere: NotImplementedError before anything is created or read.
TokenManager_init_unsupported(m) ==
    /\ pc[m] = "dead"
    /\ platform # "win32"
    /\ last' = Outcome("__init__", m, "", Raised("NotImplementedError"))
    /\ UNCHANGED <<platform, dir_exists, json_storage, keyring, urandom, pc,
                   json_data, username, token, crypt_key, call, cred,
                   last_done, persisted_keys, cts_written, sealed, inst>>

(***************************************************************************)
(* TokenManager.store (lines 107-133)                                      *)
(***************************************************************************)
\* Lines 125-128 up to open(mode='w'): a fresh key, the in-memory entry,
\* and the registry file opened for writing, which empties it.
store_begin(m, u, t) ==
    /\ pc[m] = "idle"
    /\ urandom + 2 + Cardinality(Pending) <= MaxRandom
    /\ urandom' = urandom + 1
    /\ LET key == generate_key(urandom + 1)
       IN  /\ crypt_key' = [crypt_key EXCEPT ![m] = key]
           /\ json_data' = [json_data EXCEPT
                               ![m] = store_json_data(json_data[m], u, key)]
    /\ username' = [username EXCEPT ![m] = u]
    /\ token' = [token EXCEPT ![m] = t]
    /\ json_storage' = Truncated
    /\ pc' = [pc EXCEPT ![m] = store_next("idle")]
    /\ call' = [o \in Managers |->
                   IF o = m
                   THEN [prev |-> cred[m][u].key.v,
                         prev_token |-> cred[m][u].token, alone |-> Alone(m)]
                   ELSE [call[o] EXCEPT !.alone = FALSE]]
    /\ cred' = [Disturb(cred, m, u) EXCEPT ![m][u] = NoCred]
    /\ last_done' = <<>>
    /\ last' = NoOutcome
    /\ inst' = [inst EXCEPT ![m] =
                    IF @.from = "none" \/ @.stored # {} THEN NoInst
                    ELSE [@ EXCEPT !.stored = {u}]]
    /\ UNCHANGED <<platform, dir_exists, keyring, persisted_keys, cts_written,
                   sealed>>

\* How a step of store() leaves it: back to idle with `res`, or on to its
\* next write.
StoreLeaves(m, next, res) ==
    /\ pc' = [pc EXCEPT ![m] = next]
    /\ IF next = "idle"
       THEN /\ username' = [username EXCEPT ![m] = NoArgs.username]
            /\ token' = [token EXCEPT ![m] = NoArgs.token]
            /\ crypt_key' = [crypt_key EXCEPT ![m] = NoArgs.crypt_key]
            /\ call' = [call EXCEPT ![m] = NoCall]
            /\ last' = Outcome("store", m, username[m], res)
       ELSE /\ last' = NoOutcome
            /\ UNCHANGED <<username, token, crypt_key, call>>

\* A dump that leaves the file alone when another writer has filled it
\* since this store opened it.
store_dump_first_writer(m) ==
    /\ pc[m] = "dump"
    /\ json_storage' = IF json_storage.kind = "json" THEN json_storage
                       ELSE json_dump(json_data[m])
    /\ persisted_keys' = persisted_keys \cup KeyIds(json_data[m])
    /\ StoreLeaves(m, store_next("dump"), NoneVal)
    /\ UNCHANGED <<platform, dir_exists, keyring, urandom, json_data, cred,
                   last_done, cts_written, sealed, inst>>

\* Line 101 and the end of the with block: the whole mapping is written
\* and the file closed.
store_dump(m) ==
    /\ pc[m] = "dump"
    /\ json_storage' = json_dump(json_data[m])
    /\ persisted_keys' = persisted_keys \cup KeyIds(json_data[m])
    /\ StoreLeaves(m, store_next("dump"), NoneVal)
    /\ UNCHANGED <<platform, dir_exists, keyring, urandom, json_data, cred,
                   last_done, cts_written, sealed, inst>>

\* Lines 131-133, the token is ASCII and the keyring accepts the write.
store_set_password(m) ==
    LET encrypted_token ==
            store_encrypted_token(crypt_key[m], token[m], urandom + 1)
    IN  /\ pc[m] = "set_password"
        /\ ~IsRaised(encrypted_token)
        /\ urandom' = urandom + 1
        /\ keyring' = DictSet(keyring, username[m], encrypted_token)
        /\ cred' = [Disturb(cred, m, username[m]) EXCEPT ![m][username[m]] =
                       [done |-> TRUE, token |-> token[m],
                        key |-> crypt_key[m], prev |-> call[m].prev,
                        prev_token |-> call[m].prev_token]]
        /\ last_done' = IF call[m].alone
                        THEN <<[username |-> username[m], token |-> token[m]]>>
                        ELSE <<>>
        /\ cts_written' = cts_written \cup {encrypted_token.v[1]}
        /\ sealed' = DictSet(sealed, username[m],
                             [ct |-> encrypted_token, token |-> token[m],
                              key |-> crypt_key[m]])
        /\ StoreLeaves(m, store_next("set_password"), NoneVal)
        /\ UNCHANGED <<platform, dir_exists, json_storage, json_data,
                       persisted_keys, inst>>

\* Line 132 raises UnicodeEncodeError: the token holds a non-ASCII
\* character.  The registry was already written (lines 127-128).
store_encode_error(m) ==
    LET encrypted_token ==
            store_encrypted_token(crypt_key[m], token[m], urandom + 1)
    IN  /\ pc[m] = "set_password"
        /\ IsRaised(encrypted_token)
        /\ StoreLeaves(m, "idle", encrypted_token)
        /\ UNCHANGED <<platform, dir_exists, json_storage, keyring, urandom,
                       json_data, cred, last_done, persisted_keys,
                       cts_written, sealed, inst>>

\* Line 133 raises: the keyring backend refuses the write.
store_backend_error(m) ==
    /\ pc[m] = "set_password"
    /\ ~IsRaised(encode_ascii(token[m]))
    /\ urandom' = urandom + 1
    /\ StoreLeaves(m, "idle", Raised("PasswordSetError"))
    /\ UNCHANGED <<platform, dir_exists, json_storage, keyring, json_data,
                   cred, last_done, persisted_keys, cts_written, sealed,
                   inst>>

(***************************************************************************)
(* TokenManager.retrieve_current_token (lines 135-139)                     *)
(***************************************************************************)
\* A retrieve that creates the registry entry it does not find.
retrieve_current_token_creating(m, u) ==
    /\ pc[m] = "idle"
    /\ last' = Outcome("retrieve", m, u,
                       retrieve_result(json_data[m], keyring, u))
    /\ json_data' = [json_data EXCEPT
                        ![m] = store_json_data_setdefault(json_data[m], u,
                                                          generate_key(0))]
    /\ UNCHANGED <<platform, dir_exists, json_storage, keyring, urandom, pc,
                   username, token, crypt_key, call, cred, last_done,
                   persisted_keys, cts_written, sealed, inst>>

\* The call returns the decrypted bytes or raises; nothing is written.
retrieve_current_token(m, u) ==
    /\ pc[m] = "idle"
    /\ last' = Outcome("retrieve", m, u,
                       retrieve_result(json_data[m], keyring, u))
    /\ UNCHANGED <<platform, dir_exists, json_storage, keyring, urandom, pc,
                   json_data, username, token, crypt_key, call, cred,
                   last_done, persisted_keys, cts_written, sealed, inst>>

(***************************************************************************)
(* The host process of a manager dies: its memory is gone, the file and    *)
(* the keyring stay as they are.                                           *)
(***************************************************************************)
crash(m) ==
    /\ pc[m] # "dead"
    /\ pc' = [pc EXCEPT ![m] = "dead"]
    /\ json_data' = [json_data EXCEPT ![m] = EmptyDict]
    /\ username' = [username EXCEPT ![m] = NoArgs.username]
    /\ token' = [token EXCEPT ![m] = NoArgs.token]
    /\ crypt_key' = [crypt_key EXCEPT ![m] = NoArgs.crypt_key]
    /\ call' = [call EXCEPT ![m] = NoCall]
    /\ cred' = [cred EXCEPT ![m] = [u \in Usernames |-> NoCred]]
    /\ last' = NoOutcome
    /\ inst' = [inst EXCEPT ![m] = NoInst]
    /\ UNCHANGED <<platform, dir_exists, json_storage, keyring, urandom,
                   last_done, persisted_keys, cts_written, sealed>>

Next ==
    \E m \in Managers :
        \/ TokenManager_init(m)
        \/ TokenManager_init_unsupported(m)
        \/ \E u \in Usernames, t \in Tokens : store_begin(m, u, t)
        \/ store_dump(m)
        \/ store_encode_error(m)
        \/ store_set_password(m)
        \/ store_backend_error(m)
        \/ \E u \in Usernames : retrieve_current_token(m, u)
        \/ crash(m)

Spec == Init /\ [][Next]_vars

(***************************************************************************)
(* The keyring record of a username altered outside the program, between   *)
(* the store that wrote it and the get_password of line 136.               *)
(***************************************************************************)
\* The ways a stored ciphertext is altered: a bit flipped that leaves its
\* text ASCII, or the top bit of a character set.
Alterations == {"bit", "top_bit"}

\* An altered ciphertext verifies under no key (key ids start at 1); with a
\* top bit set it also holds a character above 127.
alter(ct, how) ==
    IF how = "bit" THEN Str([ct.v EXCEPT ![1] = 0])
    ELSE Str([ct.v EXCEPT ![1] = 0, ![2] = (@ % 128) + 128])

tamper(u, how) ==
    /\ u \in DOMAIN keyring
    /\ keyring[u] # alter(keyring[u], how)
    /\ keyring' = [keyring EXCEPT ![u] = alter(@, how)]
    /\ cred' = [m \in Managers |-> [cred[m] EXCEPT ![u] = NoCred]]
    /\ last_done' = <<>>
    /\ last' = NoOutcome
    /\ UNCHANGED <<platform, dir_exists, json_storage, urandom, pc, json_data,
                   username, token, crypt_key, call, persisted_keys,
                   cts_written, sealed, inst>>

\* The manager whose calls are followed while the keyring is altered.
TamperManagers == {"A"}

NextTamper ==
    \/ \E m \in TamperManagers :
           \/ TokenManager_init(m)
           \/ TokenManager_init_unsupported(m)
           \/ \E u \in Usernames, t \in Tokens : store_begin(m, u, t)
           \/ store_dump(m)
           \/ store_encode_error(m)
           \/ store_set_password(m)
           \/ store_backend_error(m)
           \/ \E u \in Usernames : retrieve_current_token(m, u)
           \/ crash(m)
    \/ \E u \in Usernames, how \in Alterations : tamper(u, how)

SpecTamper == Init /\ [][NextTamper]_vars

(***************************************************************************)
(* Properties.                                                             *)
(***************************************************************************)
\* No manager is inside store().
Quiescent == \A m \in Managers : pc[m] \in {"idle", "dead"}

\* What retrieve_current_token(u) on manager m returns or raises now.
Retrieved(m, u) == retrieve_result(json_data[m], keyring, u)

\* C1 (as amended): when manager m's store(u, t) has completed and no other
\* store for u has begun or written since, retrieve_current_token(u) on m
\* returns the ASCII encoding of t as bytes.
RoundTripBytes ==
    \A m \in Managers, u \in Usernames :
        cred[m][u].done => Retrieved(m, u) = encode_ascii(cred[m][u].token)

\* C1 (as claimed): ... retrieve returns exactly the token string t.
RoundTripExact ==
    \A m \in Managers, u \in Usernames :
        cred[m][u].done => Retrieved(m, u) = cred[m][u].token

\* C1 witness: a retrieve that followed a completed store on the same
\* manager and username and returned bytes.
RoundTripWitness ==
    /\ last.op = "retrieve"
    /\ cred[last.m][last.username].done
    /\ last.result.type = "bytes"

\* C2 (as claimed): whenever no store is in flight (completed, raised or
\* crashed), the persisted Key Registry has an entry for a username if and
\* only if the keyring has a ciphertext for it.
TwoStoreConsistency ==
    Quiescent =>
        \A u \in Usernames :
            (u \in DOMAIN _get_json_storage(json_storage))
                <=> (u \in DOMAIN keyring)

\* C3: every ciphertext written to the keyring was encrypted under a key
\* that a completed json.dump had put into the registry file before, and a
\* store that is about to write the keyring has its key persisted.
WriteOrdering ==
    /\ \A u \in DOMAIN keyring : keyring[u].v[1] \in persisted_keys
    /\ \A m \in Managers :
           pc[m] = "set_password" => crypt_key[m].v[1] \in persisted_keys

\* C3 witness: a store wrote its ciphertext and returned.
WriteOrderingWitness ==
    /\ last.op = "store"
    /\ last.result = NoneVal
    /\ last.username \in DOMAIN keyring

\* C4 (as claimed): once no store is in flight, every ciphertext in the
\* keyring decrypts under the key the persisted registry holds for its
\* username.
CrashSafety ==
    Quiescent =>
        \A u \in DOMAIN keyring :
            LET registry == _get_json_storage(json_storage)
            IN  u \in DOMAIN registry =>
                    ~IsRaised(Fernet_decrypt(encode_ascii(registry[u]),
                                             encode_ascii(keyring[u])))

\* C5: for a username without a ciphertext in the keyring, retrieve fails
\* with the missing-credential error (AttributeError from line 136),
\* whether or not the registry has a key for it.
CredentialNotFoundFirst ==
    \A m \in Managers, u \in Usernames :
        (pc[m] # "dead" /\ u \notin DOMAIN keyring)
            => Retrieved(m, u) = Raised("AttributeError")

\* C5 witness: a retrieve failed that way although the registry had a key.
CredentialNotFoundWitness ==
    /\ last.op = "retrieve"
    /\ last.result = Raised("AttributeError")
    /\ last.username \in DOMAIN json_data[last.m]
    /\ last.username \notin DOMAIN keyring

\* C6: with a ciphertext in the keyring and no registry entry, retrieve
\* raises KeyError: not the missing-credential error, not the decryption
\* error, and never a token.
DesyncDetected ==
    \A m \in Managers, u \in Usernames :
        (pc[m] # "dead" /\ u \in DOMAIN keyring /\ u \notin DOMAIN json_data[m])
            => /\ Retrieved(m, u) = Raised("KeyError")
               /\ Retrieved(m, u).type
                      \notin {"AttributeError", "InvalidToken", "bytes", "str"}

\* C6 witness: a retrieve raised KeyError with the ciphertext present.
DesyncWitness ==
    /\ last.op = "retrieve"
    /\ last.result = Raised("KeyError")
    /\ last.username \in DOMAIN keyring
    /\ last.username \notin DOMAIN json_data[last.m]

\* C7: a retrieve step, returning or raising, leaves every manager's
\* in-memory registry, the registry file and the keyring as they were.
RetrieveReadOnly ==
    [][\A m \in Managers, u \in Usernames :
           retrieve_current_token(m, u)
               => UNCHANGED <<json_data, json_storage, keyring>>]_vars

\* C7 witness: a retrieve failed for a username the registry does not hold,
\* and the registry still does not hold it.
RetrieveReadOnlyWitness ==
    /\ last.op = "retrieve"
    /\ IsRaised(last.result)
    /\ pc[last.m] = "idle"
    /\ last.username \notin DOMAIN json_data[last.m]

\* The facts of C8 that do not depend on the returned type.
Replaced(m, u) ==
    /\ u \in DOMAIN json_data[m]
    /\ json_data[m][u] = decode_utf8(cred[m][u].key)
    /\ cred[m][u].key.v # cred[m][u].prev
    /\ cred[m][u].prev[1] \notin KeyIds(json_data[m])
    /\ u \in DOMAIN keyring
    /\ keyring[u].v[1] = cred[m][u].key.v[1]
    /\ \A o \in DOMAIN keyring : keyring[o].v[1] # cred[m][u].prev[1]

\* C8 (as amended): after store(u, t1) and then a completed store(u, t2) on
\* one manager, its registry holds for u the key of the second store, the
\* keyring holds the ciphertext of t2 under that key, the first key is in
\* neither, and retrieve returns the ASCII encoding of t2 as bytes.
FullReplacementBytes ==
    \A m \in Managers, u \in Usernames :
        (cred[m][u].done /\ cred[m][u].prev # <<>>)
            => /\ Replaced(m, u)
               /\ Retrieved(m, u) = encode_ascii(cred[m][u].token)

\* C8 (as claimed): ... and retrieve returns t2.
FullReplacementExact ==
    \A m \in Managers, u \in Usernames :
        (cred[m][u].done /\ cred[m][u].prev # <<>>)
            => /\ Replaced(m, u)
               /\ Retrieved(m, u) = cred[m][u].token

\* C8 witness: a retrieve after the second store returned bytes.
FullReplacementWitness ==
    /\ last.op = "retrieve"
    /\ cred[last.m][last.username].done
    /\ cred[last.m][last.username].prev # <<>>
    /\ last.result.type = "bytes"

\* A step of store() by manager m for username u: the call begins, or
\* moves on from one of its writes (returning, raising or continuing).
StoreStep(m, u) ==
    \/ /\ pc[m] = "idle"
       /\ pc'[m] \in {"dump", "set_password"}
       /\ username'[m] = u
    \/ /\ pc[m] \in {"dump", "set_password"}
       /\ username[m] = u
       /\ pc'[m] \notin {pc[m], "dead"}

\* C9: two usernames never have the same key in a registry; the ciphertext
\* of one does not decrypt under a registry key of the other; and a step of
\* store for i on a manager leaves that manager's key for j, the ciphertext
\* of j and what retrieve(j) returns on that manager unchanged.
Isolation ==
    /\ [](\A m \in Managers, o \in Managers :
             \A i \in DOMAIN json_data[m], j \in DOMAIN json_data[o] :
                 i # j =>
                    /\ json_data[m][i] # json_data[o][j]
                    /\ i \in DOMAIN keyring =>
                           Fernet_decrypt(encode_ascii(json_data[o][j]),
                                          encode_ascii(keyring[i]))
                               = Raised("InvalidToken"))
    /\ [][\A m \in Managers, i \in Usernames, j \in Usernames :
              (i # j /\ StoreStep(m, i))
                  => /\ (j \in DOMAIN json_data[m]) <=> (j \in DOMAIN json_data'[m])
                     /\ j \in DOMAIN json_data[m] =>
                            json_data'[m][j] = json_data[m][j]
                     /\ (j \in DOMAIN keyring) <=> (j \in DOMAIN keyring')
                     /\ j \in DOMAIN keyring => keyring'[j] = keyring[j]
                     /\ Retrieved(m, j)' = Retrieved(m, j)]_vars

\* C9 witness: manager m stored j, then completed a store for i, and a
\* retrieve of j on m returned bytes.
IsolationWitness ==
    /\ last.op = "retrieve"
    /\ last.result.type = "bytes"
    /\ \E i \in Usernames :
           /\ i # last.username
           /\ cred[last.m][i].done
           /\ cred[last.m][last.username].done
           /\ cred[last.m][i].key.v[1] > cred[last.m][last.username].key.v[1]

\* A step that constructs manager m.
Constructs(m) == pc[m] = "dead" /\ pc'[m] = "idle"

\* C10 (as amended): a manager constructed after a store(u, t) completed
\* undisturbed holds what the registry file holds, and retrieve(u) on it
\* returns the ASCII encoding of t as bytes.
PersistenceBytes ==
    [][\A m \in Managers :
           (Constructs(m) /\ last_done # <<>>)
               => /\ json_data'[m] = _get_json_storage(json_storage)
                  /\ Retrieved(m, last_done[1].username)'
                         = encode_ascii(last_done[1].token)]_vars

\* C10 (as claimed): ... retrieve(u) on the new instance returns t.
PersistenceExact ==
    [][\A m \in Managers :
           (Constructs(m) /\ last_done # <<>>)
               => /\ json_data'[m] = _get_json_storage(json_storage)
                  /\ Retrieved(m, last_done[1].username)'
                         = last_done[1].token]_vars

\* C10 witness: a manager has just been constructed after an undisturbed
\* completed store, and retrieve on it returns bytes.
PersistenceWitness ==
    /\ last.op = "__init__"
    /\ last_done # <<>>
    /\ pc[last.m] = "idle"
    /\ Retrieved(last.m, last_done[1].username).type = "bytes"

Altered(u) == u \in DOMAIN keyring /\ keyring[u] # sealed[u].ct

\* Manager m's registry holds a key for u that is not the key the latest
\* store encrypted u's ciphertext with.
WrongKey(m, u) ==
    /\ u \in DOMAIN keyring
    /\ u \in DOMAIN json_data[m]
    /\ encode_ascii(json_data[m][u]) # sealed[u].key

\* C12 (as amended): retrieve returns a value only when the keyring holds
\* the ciphertext a store wrote and the registry holds that store's key, and
\* the value is the ASCII encoding of that store's token as bytes.  With
\* the ciphertext altered, or the registry key not the encrypting key, it
\* raises: UnicodeEncodeError when the altered text is not ASCII (line 136),
\* else KeyError when the registry has no key, else InvalidToken.
TamperDetected ==
    \A m \in Managers, u \in Usernames :
        pc[m] # "dead" =>
            LET r == Retrieved(m, u)
            IN  /\ ~IsRaised(r) =>
                       /\ u \in DOMAIN keyring
                       /\ ~Altered(u)
                       /\ ~WrongKey(m, u)
                       /\ r = encode_ascii(sealed[u].token)
                /\ (Altered(u) \/ WrongKey(m, u)) =>
                       r = IF ~IsAscii(keyring[u].v)
                           THEN Raised("UnicodeEncodeError")
                           ELSE IF u \notin DOMAIN json_data[m]
                           THEN Raised("KeyError")
                           ELSE Raised("InvalidToken")

\* C12 (as claimed): retrieve returns exactly the token of the store that
\* produced the ciphertext, or fails; with the ciphertext altered or the
\* registry key not the encrypting key it fails with InvalidToken.
TamperDetectedExact ==
    \A m \in Managers, u \in Usernames :
        pc[m] # "dead" =>
            LET r == Retrieved(m, u)
            IN  /\ ~IsRaised(r) =>
                       /\ u \in DOMAIN keyring
                       /\ r = sealed[u].token
                /\ (Altered(u) \/ WrongKey(m, u)) =>
                       r = Raised("InvalidToken")

\* C12 witness: the ciphertext was altered while the registry holds the key
\* it was encrypted with, and a retrieve raised InvalidToken.
TamperDetectedWitness ==
    /\ last.op = "retrieve"
    /\ Altered(last.username)
    /\ ~WrongKey(last.m, last.username)
    /\ last.username \in DOMAIN json_data[last.m]
    /\ last.result = Raised("InvalidToken")

\* C13: every value in the registry file is a generated key and no token;
\* every keyring record is no token but the ciphertext a store produced by
\* encrypting its token under its key, a key that a json.dump had put
\* into the registry file.
PlaintextNeverPersisted ==
    /\ json_storage.kind = "json" =>
           \A u \in DOMAIN json_storage.obj :
               /\ json_storage.obj[u] \notin Tokens
               /\ \E rnd \in 1..urandom :
                      json_storage.obj[u] = decode_utf8(generate_key(rnd))
    /\ \A u \in DOMAIN keyring :
           /\ keyring[u] \notin Tokens
           /\ keyring[u] = sealed[u].ct
           /\ \E iv \in 1..urandom :
                  keyring[u] = decode_utf8(Fernet_encrypt(
                                   sealed[u].key,
                                   encode_ascii(sealed[u].token), iv))
           /\ sealed[u].key.v[1] \in persisted_keys

\* C13 witness: the file holds a key and the keyring a ciphertext for every
\* username.
PlaintextNeverPersistedWitness ==
    /\ json_storage.kind = "json"
    /\ DOMAIN json_storage.obj = Usernames
    /\ DOMAIN keyring = Usernames

\* Ids of the keys any store has left anywhere: in a manager's memory, in
\* the registry file now or before, under a ciphertext written to the
\* keyring, or in a store in flight.
KeysSeen ==
    persisted_keys \cup cts_written
        \cup KeyIds(_get_json_storage(json_storage))
        \cup UNION {KeyIds(json_data[o]) : o \in Managers}
        \cup {crypt_key[o].v[1] : o \in Pending}
        \cup {sealed[u].key.v[1] : u \in DOMAIN sealed}

\* C14: the key a store generates is none that an earlier store left
\* anywhere, and it becomes the registry entry of the username; the
\* ciphertext a store writes is encrypted under that key, under which no
\* ciphertext was written before, and differs from every ciphertext in the
\* keyring, the one it replaces included.
FreshKeyPerStore ==
    [][\A m \in Managers :
           /\ (pc[m] = "idle" /\ pc'[m] \notin {"idle", "dead"})
                  => /\ crypt_key'[m].v[1] \notin KeysSeen
                     /\ json_data'[m][username'[m]]
                            = decode_utf8(crypt_key'[m])
           /\ (/\ pc[m] = "set_password"
               /\ last'.op = "store"
               /\ last'.m = m
               /\ last'.result = NoneVal)
                  => LET u == username[m]
                     IN  /\ keyring'[u] = sealed'[u].ct
                         /\ sealed'[u].key = crypt_key[m]
                         /\ crypt_key[m].v[1] \notin cts_written
                         /\ \A o \in DOMAIN keyring : keyring'[u] # keyring[o]
                         /\ u \in DOMAIN sealed =>
                                /\ sealed'[u].ct # sealed[u].ct
                                /\ sealed'[u].key # sealed[u].key]_vars

\* C14 witness: a manager completed a second store for a username with the
\* token of its first; the key it left is not the first one.
FreshKeyPerStoreWitness ==
    /\ last.op = "store"
    /\ last.result = NoneVal
    /\ cred[last.m][last.username].done
    /\ cred[last.m][last.username].prev # <<>>
    /\ cred[last.m][last.username].prev_token
           = cred[last.m][last.username].token
    /\ cred[last.m][last.username].prev
           # cred[last.m][last.username].key.v

\* C15: __init__ on a platform other than win32 raises NotImplementedError
\* and leaves the folder, the file, the keyring and the manager as they
\* were, so that nothing ever exists there; on win32 it returns, the
\* folder exists afterwards whether or not it did before, the file and the
\* keyring are untouched and the manager holds what the file holds.
FailFastConstruction ==
    /\ [][\A m \in Managers :
              (pc[m] = "dead" /\ last'.op = "__init__" /\ last'.m = m)
                  => IF platform = "win32"
                     THEN /\ last'.result = NoneVal
                          /\ dir_exists'
                          /\ pc'[m] = "idle"
                          /\ json_data'[m] = _get_json_storage(json_storage)
                          /\ UNCHANGED <<json_storage, keyring>>
                     ELSE /\ last'.result = Raised("NotImplementedError")
                          /\ UNCHANGED <<dir_exists, json_storage, keyring,
                                         pc, json_data>>]_vars
    /\ [](platform # "win32" =>
             /\ ~dir_exists
             /\ json_storage = NoFile
             /\ \A m \in Managers :
                    pc[m] = "dead" /\ json_data[m] = EmptyDict)

\* C15 witness: a construction raised NotImplementedError and there is no
\* folder.
FailFastConstructionWitness ==
    /\ last.op = "__init__"
    /\ last.result = Raised("NotImplementedError")
    /\ platform # "win32"
    /\ ~dir_exists
    /\ pc[last.m] = "dead"

\* C16: the two writes of a store each replace what is there, whoever
\* wrote it: json.dump leaves the file holding the writer's mapping and does
\* not touch the keyring; set_password leaves the keyring holding the
\* writer's ciphertext for the username and does not touch the file.  And a
\* manager whose registry key for a username is not the key of the
\* ciphertext in the keyring gets InvalidToken from retrieve.
SameIdentityRace ==
    /\ [][\A m \in Managers :
              /\ (pc[m] = "dump" /\ pc'[m] = "set_password")
                     => /\ json_storage' = json_dump(json_data[m])
                        /\ keyring' = keyring
              /\ (/\ pc[m] = "set_password"
                  /\ last'.op = "store"
                  /\ last'.m = m
                  /\ last'.result = NoneVal)
                     => /\ keyring'[username[m]] = sealed'[username[m]].ct
                        /\ sealed'[username[m]].key = crypt_key[m]
                        /\ sealed'[username[m]].token = token[m]
                        /\ json_storage' = json_storage]_vars
    /\ [](\A m \in Managers, u \in Usernames :
             (pc[m] # "dead" /\ WrongKey(m, u))
                 => Retrieved(m, u) = Raised("InvalidToken"))

\* C16 witness: two live managers each completed a store for one username,
\* both keys were dumped and both ciphertexts written; the file holds the
\* key of one store, the keyring the ciphertext of the other, and a
\* retrieve on the manager that holds the file's key raised InvalidToken.
SameIdentityRaceWitness ==
    /\ last.op = "retrieve"
    /\ last.result = Raised("InvalidToken")
    /\ \A m \in Managers : pc[m] = "idle"
    /\ json_storage.kind = "json"
    /\ last.username \in DOMAIN json_storage.obj
    /\ json_data[last.m] = json_storage.obj
    /\ LET file_key == encode_ascii(json_storage.obj[last.username])
           ring_key == sealed[last.username].key
       IN  /\ file_key # ring_key
           /\ {file_key.v[1], ring_key.v[1]} \subseteq persisted_keys
           /\ {file_key.v[1], ring_key.v[1]} \subseteq cts_written
           /\ \E o \in Others(last.m) :
                  /\ last.username \in DOMAIN json_data[o]
                  /\ encode_ascii(json_data[o][last.username]) = ring_key

\* C17 (as claimed): manager a completed store(i); manager b, constructed
\* when there was no registry file yet, then completed its first store, for
\* another username j, with no other store running; the registry file
\* still holds a's key for i, and a manager constructed now retrieves the
\* bytes of both tokens.
NoLostEntries ==
    \A a \in Managers, b \in Managers, i \in Usernames, j \in Usernames :
        (/\ a # b
         /\ i # j
         /\ cred[a][i].done
         /\ inst[b].from = "absent"
         /\ inst[b].stored = {j}
         /\ cred[b][j].done
         /\ last.op = "store"
         /\ last.m = b
         /\ last.result = NoneVal
         /\ last_done # <<>>)
            => LET registry == _get_json_storage(json_storage)
               IN  /\ i \in DOMAIN registry
                   /\ registry[i] = decode_utf8(cred[a][i].key)
                   /\ retrieve_result(registry, keyring, i)
                          = encode_ascii(cred[a][i].token)
                   /\ retrieve_result(registry, keyring, j)
                          = encode_ascii(cred[b][j].token)

\* C18: a step that ends a store on manager m, during which no other
\* manager was inside store, leaves the registry file holding m's whole
\* in-memory mapping; and while m lives, no step removes a username from
\* its mapping, and an entry changes only when m begins a store for it.
RegistryPersistenceMonotone ==
    [][\A m \in Managers :
           /\ (/\ pc[m] \in {"dump", "set_password"}
               /\ call[m].alone
               /\ last'.op = "store"
               /\ last'.m = m)
                  => json_storage' = json_dump(json_data'[m])
           /\ (pc[m] # "dead" /\ pc'[m] # "dead")
                  => /\ DOMAIN json_data[m] \subseteq DOMAIN json_data'[m]
                     /\ \A u \in DOMAIN json_data[m] :
                            json_data'[m][u] # json_data[m][u]
                                => /\ pc[m] = "idle"
                                   /\ pc'[m] = "dump"
                                   /\ username'[m] = u]_vars

\* C18 witness: a manager that holds keys for all usernames has completed
\* a store, and the file holds its whole mapping.
RegistryPersistenceMonotoneWitness ==
    /\ last.op = "store"
    /\ last.result = NoneVal
    /\ last_done # <<>>
    /\ DOMAIN json_data[last.m] = Usernames
    /\ json_storage = json_dump(json_data[last.m])

====
